---- MODULE Spec2Model ----
(***************************************************************************)
(* The background job queue of the QAAI runner: the jobs_queue table and   *)
(* its acquire_job function (schema), the Job Store client                 *)
(* (services/runner/lib/jobs.js), the worker's poll loop                   *)
(* (services/runner/index.js) and the web app's enqueue paths.             *)
(***************************************************************************)
EXTENDS Integers, FiniteSets, Sequences, TLC

\* ------------------------------------------------------------------ bounds
NumWorkers == 2
MaxJobs == 2
MaxSeed == 1
MaxTime == 1

\* ------------------------------------------------------- program constants
MAX_ATTEMPTS == 3
MaxErrorLen == 5000
UnknownErrorLen == 13

\* ------------------------------------------------------------------ schema
KINDS == {"plan", "generate", "run"}
STATUSES == {"queued", "running", "done", "error"}

\* WORKER_ID = `worker-${process.pid}-${Date.now()}`: one id per process.
WORKER_ID(i) == <<"worker", i>>
Workers == {WORKER_ID(i) : i \in 1..NumWorkers}
\* locked_by of a row no process has locked (SQL null).
NoWorker == <<>>
\* The id of a worker process that ran before the ones modelled and is gone.
PriorWorker == WORKER_ID(0)

\* SQL null in the integer columns locked_at and last_error.
NullInt == -1

VARIABLES
    jobs_queue,   \* the table: id -> row
    next_id,      \* the bigserial sequence of jobs_queue.id
    now,          \* the store's clock, now()
    sel,          \* per worker: the row its in-flight acquire_job holds FOR UPDATE (0: none)
    pc,           \* per worker: where the process is in startPolling / processJob
    job,          \* per worker: processJob's local `job`, the row acquireJob returned
    acquired,     \* id -> how many acquireJob calls have returned it
    call,         \* the analytics library call in progress: function and arguments
    ret           \* what that call returned

vars == <<jobs_queue, next_id, now, sel, pc, job, acquired, call, ret>>

\* The job queue's variables.
qvars == <<jobs_queue, next_id, now, sel, pc, job, acquired>>

\* No analytics call has been made, none has returned.
NoCall == [fn |-> "none"]
NoRet == [kind |-> "none"]

NoJob == [id |-> 0, kind |-> "none", attempts |-> 0]

Ids == DOMAIN jobs_queue

\* A row as the insert builds it from the columns' defaults.
NewRow(kind, status) ==
    [kind |-> kind, status |-> status, attempts |-> 0, last_error |-> NullInt,
     scheduled_at |-> now, locked_by |-> NoWorker, locked_at |-> NullInt]

\* The table's check constraints on kind and status.
CheckOK(row) == row.kind \in KINDS /\ row.status \in STATUSES

\* insert into jobs_queue: the table after the insert (unchanged when the
\* store is unavailable or a check constraint rejects the row).
Insert(table, id, row, storeUp) ==
    IF storeUp /\ CheckOK(row)
    THEN [i \in (DOMAIN table) \cup {id} |-> IF i = id THEN row ELSE table[i]]
    ELSE table

\* -------------------------------------------------- acquire_job (schema)

NeverLocked(id) == FALSE

\* "for update": a row is locked while an in-flight acquire_job has selected it.
Locked(id) == \E w \in Workers : sel[w] = id

EligibleAnyAttempts(table) ==
    {id \in DOMAIN table : table[id].status = "queued"}

\* where status = 'queued' and attempts < 3
Eligible(table) ==
    {id \in DOMAIN table :
        table[id].status = "queued" /\ table[id].attempts < MAX_ATTEMPTS}

\* "skip locked": rows another transaction holds are passed over.
Candidates(table) == {id \in Eligible(table) : ~Locked(id)}

Unordered(table, S) == S

\* order by scheduled_at limit 1: the rows the limit may keep (ties are the
\* planner's choice).
Oldest(table, S) ==
    {id \in S : \A o \in S : table[id].scheduled_at <= table[o].scheduled_at}

\* The update without locked_by.
AcquireJobUpdateNoOwner(table, id, worker_id, t) ==
    [table EXCEPT ![id] = [@ EXCEPT !.status = "running", !.locked_at = t]]

\* update jobs_queue set status = 'running', locked_by = worker_id,
\* locked_at = now() where id = (the selected id)
AcquireJobUpdate(table, id, worker_id, t) ==
    [table EXCEPT ![id] =
        [@ EXCEPT !.status = "running", !.locked_by = worker_id, !.locked_at = t]]

\* returning id, kind, payload, attempts
Returning(table, id) ==
    [id |-> id, kind |-> table[id].kind, attempts |-> table[id].attempts]

\* ------------------------------------------------------ Job Store (jobs.js)

\* errorMessage?.slice(0, 5000) || 'Unknown error', on message lengths
\* (NullInt: no message).
Truncate(len) ==
    IF len = NullInt \/ len = 0 THEN UnknownErrorLen
    ELSE IF len > MaxErrorLen THEN MaxErrorLen ELSE len

markJobDoneEveryRow(table, jobId, storeUp) ==
    IF storeUp
    THEN [id \in DOMAIN table |-> [table[id] EXCEPT !.status = "done"]]
    ELSE table

\* markJobDone: update ... set status = 'done' where id = jobId; the table is
\* left alone when the store fails (the function then returns false).
markJobDone(table, jobId, storeUp) ==
    IF storeUp /\ jobId \in DOMAIN table
    THEN [table EXCEPT ![jobId] = [@ EXCEPT !.status = "done"]]
    ELSE table

\* markJobError: the update's argument calls supabase.raw('attempts + 1'); when
\* the client has no such method the call throws before any request is sent and
\* the catch returns false.
markJobError(table, jobId, errorMessage, storeUp, hasRaw) ==
    IF hasRaw /\ storeUp /\ jobId \in DOMAIN table
    THEN [table EXCEPT ![jobId] =
            [@ EXCEPT !.status = "error", !.last_error = Truncate(errorMessage),
                      !.attempts = @ + 1]]
    ELSE table

getJobStatsUnfiltered(table, storeUp) ==
    IF storeUp
    THEN [s \in STATUSES |-> Cardinality(DOMAIN table)]
    ELSE [s \in STATUSES |-> 0]

\* getJobStats: counts by status; all zero when the store fails.
getJobStats(table, storeUp) ==
    IF storeUp
    THEN [s \in STATUSES |-> Cardinality({id \in DOMAIN table : table[id].status = s})]
    ELSE [s \in STATUSES |-> 0]

\* ------------------------------------------------------------ initial state

\* Rows the table may hold when the modelled workers start, left by earlier
\* processes and by whoever re-queues: a fresh Queued row, a row a vanished
\* worker left Running, a Done row, and Error rows with 1..MAX_ATTEMPTS attempts.
SeedShapes ==
    {<<"queued", 0>>, <<"running", 0>>, <<"done", 0>>}
        \cup {<<"error", a>> : a \in 1..MAX_ATTEMPTS}

SeedRows ==
    {[kind |-> "run", status |-> sh[1], attempts |-> sh[2],
      last_error |-> IF sh[1] = "error" THEN UnknownErrorLen ELSE NullInt,
      scheduled_at |-> 0,
      locked_by |-> IF sh[1] = "queued" THEN NoWorker ELSE PriorWorker,
      locked_at |-> IF sh[1] = "queued" THEN NullInt ELSE 0] : sh \in SeedShapes}

Init ==
    /\ \E n \in 0..MaxSeed :
          /\ jobs_queue \in [1..n -> SeedRows]
          /\ next_id = n + 1
    /\ now = 0
    /\ sel = [w \in Workers |-> 0]
    /\ pc = [w \in Workers |-> "idle"]
    /\ job = [w \in Workers |-> NoJob]
    /\ acquired = [id \in 1..MaxJobs |-> 0]
    /\ call = NoCall
    /\ ret = NoRet

\* ------------------------------------------------- the worker (index.js)

\* processJob, acquireJob: the rpc finds no unlocked eligible row; data is
\* empty, acquireJob returns null and processJob returns.
AcquireNone(w) ==
    /\ pc[w] = "idle"
    /\ Candidates(jobs_queue) = {}
    /\ UNCHANGED vars

\* acquire_job's subquery: select the oldest unlocked eligible row and lock it.
AcquireSelect(w) ==
    /\ pc[w] = "idle"
    /\ \E id \in Oldest(jobs_queue, Candidates(jobs_queue)) :
          sel' = [sel EXCEPT ![w] = id]
    /\ pc' = [pc EXCEPT ![w] = "rpc"]
    /\ UNCHANGED <<jobs_queue, next_id, now, job, acquired, call, ret>>

\* acquire_job's update and commit; acquireJob returns data[0].
AcquireUpdate(w) ==
    /\ pc[w] = "rpc"
    /\ jobs_queue' = AcquireJobUpdate(jobs_queue, sel[w], w, now)
    /\ job' = [job EXCEPT ![w] = Returning(jobs_queue', sel[w])]
    /\ acquired' = [acquired EXCEPT ![sel[w]] = @ + 1]
    /\ sel' = [sel EXCEPT ![w] = 0]
    /\ pc' = [pc EXCEPT ![w] = "handler"]
    /\ UNCHANGED <<next_id, now, call, ret>>

\* acquireJob: the rpc reports an error (or throws); the transaction changes
\* nothing, acquireJob returns null and processJob returns.
AcquireError(w) ==
    /\ pc[w] \in {"idle", "rpc"}
    /\ sel' = [sel EXCEPT ![w] = 0]
    /\ pc' = [pc EXCEPT ![w] = "idle"]
    /\ UNCHANGED <<jobs_queue, next_id, now, job, acquired, call, ret>>

\* switch (job.kind): a handler for plan, generate and run, a throw otherwise;
\* a handler returns or throws.
HandlerOutcomes(kind) ==
    IF kind \in KINDS THEN {"returned", "threw"} ELSE {"threw"}

\* The handler returns: processJob goes on to markJobDone.
HandlerReturns(w) ==
    /\ pc[w] = "handler"
    /\ "returned" \in HandlerOutcomes(job[w].kind)
    /\ pc' = [pc EXCEPT ![w] = "markdone"]
    /\ UNCHANGED <<jobs_queue, next_id, now, sel, job, acquired, call, ret>>

\* markJobDone(job.id); its result is not read, processJob returns, the loop
\* sleeps.
MarkDone(w) ==
    /\ pc[w] = "markdone"
    /\ \E storeUp \in BOOLEAN :
          jobs_queue' = markJobDone(jobs_queue, job[w].id, storeUp)
    /\ pc' = [pc EXCEPT ![w] = "idle"]
    /\ job' = [job EXCEPT ![w] = NoJob]
    /\ UNCHANGED <<next_id, now, sel, acquired, call, ret>>

\* `const job` is declared inside the try block, so the catch block's `job?.id`
\* names no binding in scope.
JobInCatchScope == FALSE

\* Lengths of error.stack || error.message || 'Unknown error'.
ErrorLens == {1, MaxErrorLen, MaxErrorLen + 1}

\* The handler throws: the catch block logs, then evaluates job?.id. With job
\* in scope it would call markJobError(job.id, errorMessage) and return; as
\* written the evaluation throws a ReferenceError out of processJob, out of
\* startPolling and out of main, whose catch calls process.exit(1).
HandlerThrows(w) ==
    /\ pc[w] = "handler"
    /\ "threw" \in HandlerOutcomes(job[w].kind)
    /\ IF JobInCatchScope
       THEN /\ \E len \in ErrorLens, storeUp \in BOOLEAN, hasRaw \in BOOLEAN :
                  jobs_queue' = markJobError(jobs_queue, job[w].id, len, storeUp, hasRaw)
            /\ pc' = [pc EXCEPT ![w] = "idle"]
            /\ job' = [job EXCEPT ![w] = NoJob]
       ELSE /\ pc' = [pc EXCEPT ![w] = "exited"]
            /\ UNCHANGED <<jobs_queue, job>>
    /\ UNCHANGED <<next_id, now, sel, acquired, call, ret>>

\* ------------------------------------------------------------ enqueue paths

\* One insert into jobs_queue: the sequence gives the id, and a row a check
\* constraint rejects has used its value.
InsertJob(row) ==
    /\ next_id <= MaxJobs
    /\ \E storeUp \in BOOLEAN :
          /\ jobs_queue' = Insert(jobs_queue, next_id, row, storeUp)
          /\ next_id' = IF storeUp THEN next_id + 1 ELSE next_id
    /\ UNCHANGED <<now, sel, pc, job, acquired, call, ret>>

\* The row createJob inserts: kind, payload, status 'queued'.
CreateJobRow(kind) == NewRow(kind, "queued")

\* The row the web app's enqueueJob inserts: kind, payload, status 'pending'.
EnqueueJobRow(kind) == NewRow(kind, "pending")

\* The row POST /api/runs inserts: kind 'run', status 'queued'.
PostRunsRow == NewRow("run", "queued")

\* The kinds createJob is called with. No code of the repository calls it (the
\* workers import an enqueueJob that jobs.js does not export); the one path
\* that does insert a row, POST /api/runs, inserts kind 'run'.
CreateKinds == {"run"}

\* jobs.js createJob(kind, payload)
CreateJob == \E kind \in CreateKinds : InsertJob(CreateJobRow(kind))

\* supabase-server.js enqueueJob(kind, payload)
EnqueueJob == \E kind \in KINDS : InsertJob(EnqueueJobRow(kind))

\* POST /api/runs: the request ends before the insert (401, 400, 404, or 500 on
\* the run row) without touching jobs_queue, or inserts the job.
PostRuns ==
    \E reached \in BOOLEAN :
        IF reached THEN InsertJob(PostRunsRow)
        ELSE next_id <= MaxJobs /\ UNCHANGED vars

\* ------------------------------------------------------------- environment

\* An external actor puts an Error job back in the queue.
ExternalRequeue(id) ==
    /\ id \in Ids
    /\ jobs_queue[id].status = "error"
    /\ jobs_queue' = [jobs_queue EXCEPT ![id] = [@ EXCEPT !.status = "queued"]]
    /\ UNCHANGED <<next_id, now, sel, pc, job, acquired, call, ret>>

\* The store's clock advances.
Tick ==
    /\ now < MaxTime
    /\ now' = now + 1
    /\ UNCHANGED <<jobs_queue, next_id, sel, pc, job, acquired, call, ret>>

Next ==
    \/ \E w \in Workers : AcquireNone(w)
    \/ \E w \in Workers : AcquireSelect(w)
    \/ \E w \in Workers : AcquireUpdate(w)
    \/ \E w \in Workers : AcquireError(w)
    \/ \E w \in Workers : HandlerReturns(w)
    \/ \E w \in Workers : HandlerThrows(w)
    \/ \E w \in Workers : MarkDone(w)
    \/ CreateJob
    \/ EnqueueJob
    \/ PostRuns
    \/ \E id \in 1..MaxJobs : ExternalRequeue(id)
    \/ Tick

Spec == Init /\ [][Next]_vars

\* ------------------------------------------------------------------ claims

Status(id) == jobs_queue[id].status

\* Rows a live worker has Running under its own id.
RunningBy(w) == {id \in Ids : Status(id) = "running" /\ jobs_queue[id].locked_by = w}

\* Worker w's acquire_job selects and locks a row in this step.
SelectStep(w) == pc[w] = "idle" /\ pc'[w] = "rpc"

\* Worker w's acquireJob returns a row in this step.
ReturnStep(w) == pc[w] = "rpc" /\ pc'[w] = "handler"

\* C1: concurrent acquireJob calls never return the same job: every id has been
\* returned at most once, two workers never hold the same id, the ids returned
\* are exactly the rows a live worker has locked, and a row still Queued has
\* been returned to nobody.
C1_NoDoubleAcquire ==
    /\ \A id \in 1..MaxJobs : acquired[id] <= 1
    /\ \A w1, w2 \in Workers :
          (w1 # w2 /\ job[w1] # NoJob /\ job[w2] # NoJob) => job[w1].id # job[w2].id
    /\ \A id \in Ids : (acquired[id] = 1) <=> (jobs_queue[id].locked_by \in Workers)
    /\ \A id \in Ids : Status(id) = "queued" => acquired[id] = 0
    /\ \A id \in (1..MaxJobs) \ Ids : acquired[id] = 0

\* Two workers have each been handed a job and no eligible row is left.
C1_Witness ==
    \E w1, w2 \in Workers :
        /\ w1 # w2
        /\ pc[w1] = "handler" /\ pc[w2] = "handler"
        /\ acquired[job[w1].id] = 1 /\ acquired[job[w2].id] = 1
        /\ Eligible(jobs_queue) = {}

\* C2: when the handler of an acquired job throws, the step leaves that job in
\* Error with attempts one more than when it was acquired and last_error of at
\* most 5000 characters.
C2_ThrowMarksError ==
    [][\A w \in Workers :
          HandlerThrows(w) =>
              /\ jobs_queue'[job[w].id].status = "error"
              /\ jobs_queue'[job[w].id].attempts = job[w].attempts + 1
              /\ jobs_queue'[job[w].id].last_error \in 1..MaxErrorLen]_vars

\* C3: a handler throwing never terminates the worker process: no worker is
\* ever in the exited state.
C3_WorkerSurvivesThrow == \A w \in Workers : pc[w] # "exited"

\* C4: acquireJob with no concurrent acquirer selects a Queued job with
\* attempts < 3 of the smallest scheduled_at; the update makes exactly that row
\* Running with locked_by the caller and locked_at now and changes no other
\* row; with no Queued job of attempts < 3 the caller gets no job; a row that
\* is not Queued is never returned.
C4_AcquireOldest ==
    [][\A w \in Workers :
          /\ (SelectStep(w) /\ \A o \in Workers \ {w} : sel[o] = 0) =>
                /\ sel'[w] \in Ids
                /\ Status(sel'[w]) = "queued"
                /\ jobs_queue[sel'[w]].attempts < 3
                /\ \A o \in Ids :
                      (Status(o) = "queued" /\ jobs_queue[o].attempts < 3) =>
                          jobs_queue[sel'[w]].scheduled_at <= jobs_queue[o].scheduled_at
          /\ ReturnStep(w) =>
                /\ Status(sel[w]) = "queued"
                /\ job'[w].id = sel[w]
                /\ DOMAIN jobs_queue' = Ids
                /\ jobs_queue'[sel[w]] =
                      [jobs_queue[sel[w]] EXCEPT !.status = "running",
                                                 !.locked_by = w, !.locked_at = now]
                /\ \A o \in Ids \ {sel[w]} : jobs_queue'[o] = jobs_queue[o]
          /\ (pc[w] = "idle"
                /\ \A o \in Ids : ~(Status(o) = "queued" /\ jobs_queue[o].attempts < 3)) =>
                pc'[w] = "idle" /\ job'[w] = NoJob /\ sel'[w] = 0]_vars

\* A worker holds the oldest job while a younger eligible job stays Queued.
C4_Witness ==
    \E w \in Workers :
        /\ pc[w] = "handler"
        /\ jobs_queue[job[w].id].locked_by = w
        /\ \A o \in Workers \ {w} : pc[o] = "idle" /\ job[o] = NoJob
        /\ \E o \in Eligible(jobs_queue) :
              jobs_queue[o].scheduled_at > jobs_queue[job[w].id].scheduled_at

\* C5: no job's attempts exceeds MAX_ATTEMPTS, and a job that has used its
\* attempts is never selected or returned by acquireJob, whatever has been
\* re-queued.
C5_AttemptsGate ==
    /\ \A id \in Ids : jobs_queue[id].attempts <= 3
    /\ \A w \in Workers : sel[w] # 0 => jobs_queue[sel[w]].attempts < 3
    /\ \A w \in Workers : job[w] # NoJob => job[w].attempts < 3
    /\ \A id \in Ids : jobs_queue[id].attempts >= 3 => acquired[id] = 0

\* A re-queued job with 3 attempts sits in the queue while a younger job has
\* been handed out.
C5_Witness ==
    \E id \in Ids, w \in Workers :
        /\ Status(id) = "queued" /\ jobs_queue[id].attempts = 3
        /\ pc[w] = "handler"
        /\ jobs_queue[job[w].id].scheduled_at > jobs_queue[id].scheduled_at

\* The one job of the table was acquired once, no worker is in processJob, and
\* the job is no longer Running.
ScenarioA(id) ==
    /\ Ids = {id}
    /\ jobs_queue[id].kind = "run"
    /\ acquired[id] = 1
    /\ \A w \in Workers : pc[w] = "idle"
    /\ Status(id) # "running"

\* C6: after one run job on an otherwise empty queue has been acquired, its
\* handler has returned and markJobDone has gone through, the job is Done and
\* getJobStats returns queued 0, running 0, done 1, error 0.
C6_DoneStats ==
    \A id \in Ids :
        ScenarioA(id) =>
            /\ Status(id) = "done"
            /\ getJobStats(jobs_queue, TRUE) =
                  [s \in STATUSES |-> IF s = "done" THEN 1 ELSE 0]

C6_Witness == \E id \in Ids : ScenarioA(id) /\ next_id = 2

\* C7: each worker has at most one job Running under its worker id.
C7_OneRunningPerWorker == \A w \in Workers : Cardinality(RunningBy(w)) <= 1

\* Rows a worker left Running when its markJobDone call failed.
Abandoned(w) == {id \in RunningBy(w) : job[w].id # id}

\* C8: a failed markJobDone is attempted again on the next poll tick: a worker
\* that left a job unmarked does not start the next tick with acquireJob.
C8_FailedMarkRetried ==
    [][\A w \in Workers :
          Abandoned(w) # {} => ~SelectStep(w)]_vars

\* C9: apart from the external re-queue, a job's status moves only
\* Queued -> Running, in the acquireJob that returns it, and Running -> Done or
\* Running -> Error, by the worker that holds it; no row disappears.
C9_StatusMoves ==
    [][\/ \A id \in Ids :
             /\ id \in DOMAIN jobs_queue'
             /\ \/ jobs_queue'[id].status = Status(id)
                \/ /\ Status(id) = "queued"
                   /\ jobs_queue'[id].status = "running"
                   /\ \E w \in Workers : ReturnStep(w) /\ sel[w] = id /\ job'[w].id = id
                \/ /\ Status(id) = "running"
                   /\ jobs_queue'[id].status \in {"done", "error"}
                   /\ \E w \in Workers :
                         /\ job[w].id = id
                         /\ jobs_queue[id].locked_by = w
                         /\ pc[w] \in {"handler", "markdone"}
       \/ \E id \in Ids : ExternalRequeue(id)]_vars

\* A job a live worker acquired has been marked Done.
C9_Witness ==
    \E id \in Ids : Status(id) = "done" /\ acquired[id] = 1
                    /\ jobs_queue[id].locked_by \in Workers

\* C10: every enqueue call the store answers (createJob, the web app's
\* enqueueJob, POST /api/runs) adds exactly one row, Queued with attempts 0 and
\* scheduled_at now, that acquireJob can select, and changes no other row.
C10_EnqueueInsertsQueued ==
    [][(CreateJob \/ EnqueueJob \/ PostRuns) =>
          /\ DOMAIN jobs_queue' = Ids \cup {next_id}
          /\ next_id \notin Ids
          /\ jobs_queue'[next_id].status = "queued"
          /\ jobs_queue'[next_id].attempts = 0
          /\ jobs_queue'[next_id].scheduled_at = now
          /\ next_id \in Eligible(jobs_queue')
          /\ \A id \in Ids : jobs_queue'[id] = jobs_queue[id]]_vars

\* ============================================== handlers' follow-on jobs
\* (services/runner/workers/planner.js, generator.js)

\* planner.js and generator.js import { enqueueJob } from '../lib/jobs.js';
\* jobs.js exports acquireJob, markJobRunning, markJobDone, markJobError,
\* createJob, getJobStats and cleanupOldJobs, and no enqueueJob.
EnqueueJobExported == FALSE

\* The check constraints of the runs table on status and trigger.
RUN_STATUSES == {"queued", "running", "passed", "failed", "error"}
RUN_TRIGGERS == {"manual", "pr", "schedule", "api"}
RunsCheckOK(row) == row.status \in RUN_STATUSES /\ row.trigger \in RUN_TRIGGERS

\* The run record runGenerator inserts before it enqueues the run job.
AutoRunRow == [status |-> "pending", trigger |-> "auto"]

\* Plan enqueues 'generate', Generate enqueues 'run'.
FollowOnKind(kind) == IF kind = "plan" THEN "generate" ELSE "run"

\* runPlanner with auto_generate set, runGenerator with auto_run set and a test
\* generated: the handler has done its own work and goes on to the follow-on
\* job. runGenerator first inserts the run record and throws when the insert
\* is refused; both then call enqueueJob(kind, payload). A call that cannot be
\* made throws out of the handler into processJob's catch block.
HandlerEnqueues(w) ==
    /\ pc[w] = "handler"
    /\ job[w].kind \in {"plan", "generate"}
    /\ IF (job[w].kind = "generate" => RunsCheckOK(AutoRunRow)) /\ EnqueueJobExported
       THEN /\ next_id <= MaxJobs
            /\ jobs_queue' = Insert(jobs_queue, next_id,
                                    CreateJobRow(FollowOnKind(job[w].kind)), TRUE)
            /\ next_id' = next_id + 1
            /\ pc' = [pc EXCEPT ![w] = "markdone"]
            /\ UNCHANGED <<now, sel, job, acquired, call, ret>>
       ELSE HandlerThrows(w)

\* createJob('plan', ...) and createJob('generate', ...): the jobs the chain
\* starts from.
ChainKinds == {"plan", "generate"}
CreateChainJob == \E kind \in ChainKinds : InsertJob(CreateJobRow(kind))

InitChain ==
    /\ jobs_queue = <<>>
    /\ next_id = 1
    /\ now = 0
    /\ sel = [w \in Workers |-> 0]
    /\ pc = [w \in Workers |-> "idle"]
    /\ job = [w \in Workers |-> NoJob]
    /\ acquired = [id \in 1..MaxJobs |-> 0]
    /\ call = NoCall
    /\ ret = NoRet

NextChain ==
    \/ \E w \in Workers : AcquireNone(w)
    \/ \E w \in Workers : AcquireSelect(w)
    \/ \E w \in Workers : AcquireUpdate(w)
    \/ \E w \in Workers : AcquireError(w)
    \/ \E w \in Workers : HandlerReturns(w)
    \/ \E w \in Workers : HandlerEnqueues(w)
    \/ \E w \in Workers : HandlerThrows(w)
    \/ \E w \in Workers : MarkDone(w)
    \/ CreateChainJob
    \/ Tick

SpecChain == InitChain /\ [][NextChain]_vars

\* C11: a Plan handler that succeeds with auto_generate set, and a Generate
\* handler that succeeds with auto_run set and a test generated, adds exactly
\* one Queued follow-on job (generate, run) in the step that ends the handler,
\* and the parent then goes on to be marked Done: the follow-on exists before
\* the parent is Done and after the parent was acquired.
C11_FollowOnQueued ==
    [][\A w \in Workers :
          HandlerEnqueues(w) =>
              /\ acquired[job[w].id] = 1
              /\ pc'[w] = "markdone"
              /\ jobs_queue'[job[w].id].status = "running"
              /\ \E id \in DOMAIN jobs_queue' \ Ids :
                    /\ DOMAIN jobs_queue' = Ids \cup {id}
                    /\ jobs_queue'[id].kind = FollowOnKind(job[w].kind)
                    /\ jobs_queue'[id].status = "queued"]_vars

\* ====================================== the Job Store called directly
\* (services/runner/lib/jobs.js: every exported function, any caller, any id)

\* How many markJobError calls per job the model follows.
MaxErrors == 2

markJobRunningCounting(table, jobId, worker_id, t, storeUp) ==
    IF storeUp /\ jobId \in DOMAIN table
    THEN [table EXCEPT ![jobId] =
            [@ EXCEPT !.status = "running", !.locked_by = worker_id,
                      !.locked_at = t, !.attempts = @ + 1]]
    ELSE table

\* markJobRunning: update ... set status = 'running', locked_by = WORKER_ID,
\* locked_at = now where id = jobId.
markJobRunning(table, jobId, worker_id, t, storeUp) ==
    IF storeUp /\ jobId \in DOMAIN table
    THEN [table EXCEPT ![jobId] =
            [@ EXCEPT !.status = "running", !.locked_by = worker_id, !.locked_at = t]]
    ELSE table

cleanupAnyStatus(table, daysOld, t, storeUp) ==
    IF storeUp
    THEN [deleted |-> {id \in DOMAIN table : table[id].scheduled_at < t - daysOld}]
    ELSE [deleted |-> {}]

\* cleanupOldJobs: delete ... where status = 'done' and scheduled_at < cutoff,
\* cutoff = the clock minus daysOld days; the rows the delete removes (none
\* when the store fails).
cleanupOldJobs(table, daysOld, t, storeUp) ==
    IF storeUp
    THEN [deleted |-> {id \in DOMAIN table :
                          table[id].status = "done" /\ table[id].scheduled_at < t - daysOld}]
    ELSE [deleted |-> {}]

\* The table after the delete.
Delete(table, ids) == [id \in (DOMAIN table) \ ids |-> table[id]]

\* cleanupOldJobs returns data?.length || 0.
CleanupReturn(table, daysOld, t, storeUp) ==
    Cardinality(cleanupOldJobs(table, daysOld, t, storeUp).deleted)

\* daysOld as callers pass it (the clock counts days).
CleanupDays == 0..MaxTime

\* acquireJob() by one caller: acquire_job's select and update in one
\* transaction; null when no row is eligible or the rpc fails.
StoreAcquireJob(w) ==
    /\ \E id \in Oldest(jobs_queue, Candidates(jobs_queue)) :
          jobs_queue' = AcquireJobUpdate(jobs_queue, id, w, now)
    /\ UNCHANGED <<next_id, now, sel, pc, job, acquired, call, ret>>

StoreMarkJobRunning(w, id, storeUp) ==
    /\ jobs_queue' = markJobRunning(jobs_queue, id, w, now, storeUp)
    /\ UNCHANGED <<next_id, now, sel, pc, job, acquired, call, ret>>

StoreMarkJobDone(id, storeUp) ==
    /\ jobs_queue' = markJobDone(jobs_queue, id, storeUp)
    /\ UNCHANGED <<next_id, now, sel, pc, job, acquired, call, ret>>

StoreMarkJobError(id, len, storeUp, hasRaw) ==
    /\ id \in Ids => jobs_queue[id].attempts < MaxErrors
    /\ jobs_queue' = markJobError(jobs_queue, id, len, storeUp, hasRaw)
    /\ UNCHANGED <<next_id, now, sel, pc, job, acquired, call, ret>>

StoreCleanup(daysOld, storeUp) ==
    /\ jobs_queue' = Delete(jobs_queue, cleanupOldJobs(jobs_queue, daysOld, now, storeUp).deleted)
    /\ UNCHANGED <<next_id, now, sel, pc, job, acquired, call, ret>>

InitStore == InitChain

NextStore ==
    \/ CreateJob
    \/ \E w \in Workers : StoreAcquireJob(w)
    \/ \E w \in Workers, id \in 1..MaxJobs, storeUp \in BOOLEAN :
          StoreMarkJobRunning(w, id, storeUp)
    \/ \E id \in 1..MaxJobs, storeUp \in BOOLEAN : StoreMarkJobDone(id, storeUp)
    \/ \E id \in 1..MaxJobs, len \in ErrorLens, storeUp \in BOOLEAN, hasRaw \in BOOLEAN :
          StoreMarkJobError(id, len, storeUp, hasRaw)
    \/ \E daysOld \in CleanupDays, storeUp \in BOOLEAN : StoreCleanup(daysOld, storeUp)
    \/ Tick

SpecStore == InitStore /\ [][NextStore]_vars

C13_DoneImmutable ==
    [][\A id \in Ids :
          Status(id) = "done" =>
              \/ id \in DOMAIN jobs_queue' /\ jobs_queue'[id] = jobs_queue[id]
              \/ /\ id \notin DOMAIN jobs_queue'
                 /\ \E daysOld \in CleanupDays : StoreCleanup(daysOld, TRUE)]_vars

\* C14: cleanupOldJobs(days) removes exactly the Done rows whose scheduled_at
\* is before now - days and returns their number; every other row stays as it
\* was; when the store fails it removes nothing and returns 0.
C14_CleanupExact ==
    [][\A daysOld \in CleanupDays, storeUp \in BOOLEAN :
          StoreCleanup(daysOld, storeUp) =>
              LET old == {id \in Ids : Status(id) = "done"
                                       /\ jobs_queue[id].scheduled_at < now - daysOld}
              IN  IF storeUp
                  THEN /\ DOMAIN jobs_queue' = Ids \ old
                       /\ \A id \in Ids \ old : jobs_queue'[id] = jobs_queue[id]
                       /\ CleanupReturn(jobs_queue, daysOld, now, storeUp) = Cardinality(old)
                  ELSE /\ jobs_queue' = jobs_queue
                       /\ CleanupReturn(jobs_queue, daysOld, now, storeUp) = 0]_vars

\* The older Done job is gone and the newer Done job is still there.
C14_Witness ==
    /\ 1 \notin Ids
    /\ 2 \in Ids
    /\ Status(2) = "done"
    /\ jobs_queue[2].scheduled_at = now

\* ================================================= the statistics library
\* (services/runner/lib/flake-detector.js)

\* The most execution records of one test case the model follows.
MaxRuns == 6

\* DEFAULT_CONFIG; confidenceLevel in percent.
DEFAULT_CONFIG ==
    [minRuns |-> 5, flakeRateThreshold |-> 10, minFailures |-> 2, confidenceLevel |-> 95]

\* A rate is kept as the fraction num / den, den > 0.
RateLess(r, n) == r.num < n * r.den
RateGreater(r, n) == r.num > n * r.den

calculateFlakeRateOverPassed(passed, failed, flaky) ==
    IF passed + failed + flaky = 0 THEN [num |-> 0, den |-> 1]
    ELSE [num |-> (failed + flaky) * 100, den |-> IF passed = 0 THEN 1 ELSE passed]

\* calculateFlakeRate: (unstable / total) * 100, 0 when total is 0.
calculateFlakeRate(passed, failed, flaky) ==
    LET total == passed + failed + flaky
        unstable == failed + flaky
    IN  IF total = 0 THEN [num |-> 0, den |-> 1]
        ELSE [num |-> unstable * 100, den |-> total]

\* calculateConfidenceInterval at successes = 0: center = z*z/(2*total) and
\* margin = z * sqrt((z*z/(4*total))/total) are the same real number, so
\* lower = max(0, (center - margin)/denominator) is 0 but for rounding; in the
\* double arithmetic of the code (z = 1.96 for confidence 0.95, z = 2.576
\* otherwise) center comes out above margin for these totals (of 1..15).
LowerRoundsUp(confidence) == IF confidence = 95 THEN {11} ELSE {3, 6, 9, 12}

\* The same at successes = total: center + margin and denominator are the same
\* real number, and upper = min(1, ...) comes out below 1 for these totals.
UpperRoundsDown(confidence) == IF confidence = 95 THEN {12} ELSE {1, 3}

\* Numbers between 0 and 8 are kept in ten-thousandths, every division rounding
\* down; over the totals followed here the bounds so computed are within
\* 0.002 of the code's doubles.
Scale == 10000

\* Math.sqrt of a whole number, rounded down: lo * lo <= n < hi * hi.
RECURSIVE SqrtBetween(_, _, _)
SqrtBetween(n, lo, hi) ==
    IF hi - lo <= 1 THEN lo
    ELSE LET mid == (lo + hi) \div 2
         IN  IF mid * mid <= n THEN SqrtBetween(n, mid, hi)
             ELSE SqrtBetween(n, lo, mid)

\* Math.sqrt(x), x and the result in ten-thousandths.
Sqrt(x) == SqrtBetween(x * Scale, 0, 46340)

\* confidence === 0.95 ? 1.96 : 2.576
ZScore(confidence) == IF confidence = 95 THEN 19600 ELSE 25760

Max(a, b) == IF a >= b THEN a ELSE b
Min(a, b) == IF a <= b THEN a ELSE b

\* The interval p -/+ z * sqrt(p (1 - p) / total), clamped to [0, 1].
waldInterval(successes, total, confidence) ==
    IF total = 0
    THEN [lower |-> 0, upper |-> 0, lowerPositive |-> FALSE, upperBelowOne |-> TRUE]
    ELSE LET pr == (successes * Scale) \div total
             z == ZScore(confidence)
             margin == (z * Sqrt(((pr * (Scale - pr)) \div Scale) \div total)) \div Scale
         IN  [lower |-> Max(0, pr - margin),
              upper |-> Min(Scale, pr + margin),
              lowerPositive |-> pr - margin > 0,
              upperBelowOne |-> pr + margin < Scale]

\* calculateConfidenceInterval(successes, total, confidence), successes <= total:
\* lower and upper in ten-thousandths, and, exactly, whether lower > 0 and
\* whether upper < 1, as isFlaky reads them. For 0 < successes < total,
\* center^2 - margin^2 = p^2 (1 + z^2/total) > 0 and likewise on the upper
\* side, far from rounding.
calculateConfidenceInterval(successes, total, confidence) ==
    IF total = 0
    THEN [lower |-> 0, upper |-> 0, lowerPositive |-> FALSE, upperBelowOne |-> TRUE]
    ELSE LET pr == (successes * Scale) \div total
             z == ZScore(confidence)
             zz == (z * z) \div Scale
             denominator == Scale + zz \div total
             center == pr + zz \div (2 * total)
             margin == (z * Sqrt(((pr * (Scale - pr)) \div Scale + zz \div (4 * total))
                                    \div total)) \div Scale
         IN  [lower |-> Max(0, ((center - margin) * Scale) \div denominator),
              upper |-> Min(Scale, ((center + margin) * Scale) \div denominator),
              lowerPositive |-> IF successes = 0 THEN total \in LowerRoundsUp(confidence)
                                ELSE TRUE,
              upperBelowOne |-> IF successes = total
                                THEN total \in UpperRoundsDown(confidence)
                                ELSE TRUE]

\* isFlaky(stats, config)
isFlaky(stats, config) ==
    IF stats.total < config.minRuns THEN FALSE
    ELSE IF stats.passed = 0 \/ stats.failed + stats.flaky < config.minFailures THEN FALSE
    ELSE IF RateLess(calculateFlakeRate(stats.passed, stats.failed, stats.flaky),
                     config.flakeRateThreshold) THEN FALSE
    ELSE LET ci == calculateConfidenceInterval(stats.failed + stats.flaky, stats.total,
                                               config.confidenceLevel)
         IN  ci.lowerPositive /\ ci.upperBelowOne

\* The statistics of up to MaxRuns execution records: total counts every
\* record, whatever its status.
StatsInputs ==
    {[total |-> p + f + k + o, passed |-> p, failed |-> f, flaky |-> k, skipped |-> o] :
        <<p, f, k, o>> \in {t \in (0..MaxRuns) \X (0..MaxRuns) \X (0..MaxRuns) \X (0..MaxRuns) :
                              t[1] + t[2] + t[3] + t[4] <= MaxRuns}}

\* config = { ...DEFAULT_CONFIG, ...options }: options come from the body of
\* POST /api/analytics/flakes/analyze as the caller wrote them.
ConfigInputs ==
    {[DEFAULT_CONFIG EXCEPT !.minRuns = r, !.minFailures = m,
                            !.flakeRateThreshold = t, !.confidenceLevel = c] :
        r \in {1, 5}, m \in {0, 2}, t \in {0, 10, 50}, c \in {95, 99}}

Value(v) == [kind |-> "value", value |-> v]

IsFlakyCalls == {[fn |-> "isFlaky", stats |-> st, config |-> cf] :
                    st \in StatsInputs, cf \in ConfigInputs}

CalculateFlakeRateCalls ==
    {[fn |-> "calculateFlakeRate", passed |-> st.passed, failed |-> st.failed,
      flaky |-> st.flaky] : st \in StatsInputs}

IsFlakyReturns ==
    /\ call.fn = "isFlaky"
    /\ ret = NoRet
    /\ ret' = Value(isFlaky(call.stats, call.config))
    /\ UNCHANGED <<qvars, call>>

CalculateFlakeRateReturns ==
    /\ call.fn = "calculateFlakeRate"
    /\ ret = NoRet
    /\ ret' = Value(calculateFlakeRate(call.passed, call.failed, call.flaky))
    /\ UNCHANGED <<qvars, call>>


ConfidenceIntervalCalls ==
    {[fn |-> "calculateConfidenceInterval", successes |-> su, total |-> to,
      confidence |-> co] :
        su \in 0..MaxRuns, to \in 0..MaxRuns, co \in {95, 99}}

\* successes counts some of the total trials.
ValidConfidenceIntervalCalls ==
    {c \in ConfidenceIntervalCalls : c.successes <= c.total}

ConfidenceIntervalReturns ==
    /\ call.fn = "calculateConfidenceInterval"
    /\ ret = NoRet
    /\ ret' = Value(calculateConfidenceInterval(call.successes, call.total,
                                                call.confidence))
    /\ UNCHANGED <<qvars, call>>

\* ===================================================== the flake detector
\* (services/runner/lib/flake-detector.js)

\* Statuses of the execution records followed (run_tests.status also allows
\* queued, running and error, which the analysis treats like skipped).
RunStatuses == {"passed", "failed", "flaky", "skipped"}

RECURSIVE SeqsUpTo(_, _)
SeqsUpTo(S, n) ==
    IF n = 0 THEN {<<>>}
    ELSE LET shorter == SeqsUpTo(S, n - 1)
         IN  shorter \cup {Append(h, x) : h \in {g \in shorter : Len(g) = n - 1}, x \in S}

\* What the store answers to the run_tests query: an error, or the records of
\* the test case in the time window, newest first.
Fetched(runs) == [error |-> FALSE, runs |-> runs]
FetchError == [error |-> TRUE, runs |-> <<>>]

Count(runs, S) == Cardinality({i \in DOMAIN runs : runs[i] \in S})

\* Math.round(num / den) for num >= 0, den > 0.
Round(num, den) == (2 * num + den) \div (2 * den)

\* The longest streak of 'failed' alone.
RECURSIVE StreakFailedOnly(_, _, _, _)
StreakFailedOnly(runs, i, currentStreak, maxConsecutiveFailures) ==
    IF i > Len(runs) THEN maxConsecutiveFailures
    ELSE IF runs[i] = "failed"
         THEN StreakFailedOnly(runs, i + 1, currentStreak + 1,
                               IF currentStreak + 1 > maxConsecutiveFailures
                               THEN currentStreak + 1 ELSE maxConsecutiveFailures)
         ELSE StreakFailedOnly(runs, i + 1, 0, maxConsecutiveFailures)

\* The longest run of adjacent failed or flaky records.
RECURSIVE Streak(_, _, _, _)
Streak(runs, i, currentStreak, maxConsecutiveFailures) ==
    IF i > Len(runs) THEN maxConsecutiveFailures
    ELSE IF runs[i] \in {"failed", "flaky"}
         THEN Streak(runs, i + 1, currentStreak + 1,
                     IF currentStreak + 1 > maxConsecutiveFailures
                     THEN currentStreak + 1 ELSE maxConsecutiveFailures)
         ELSE Streak(runs, i + 1, 0, maxConsecutiveFailures)

AlternationsOneWay(runs) ==
    Cardinality({i \in 2..Len(runs) : runs[i - 1] = "passed" /\ runs[i] = "failed"})

\* Adjacent pairs passed, failed or failed, passed.
Alternations(runs) ==
    Cardinality({i \in 2..Len(runs) :
        \/ runs[i - 1] = "passed" /\ runs[i] = "failed"
        \/ runs[i - 1] = "failed" /\ runs[i] = "passed"})

\* analyzeFailurePatterns; alternationRate in hundredths, timePattern as
\* whether failuresByHour has a key. With fewer than 2 records only hasPattern
\* is set (NullInt: the field is undefined).
analyzeFailurePatterns(runs) ==
    IF Len(runs) < 2
    THEN [hasPattern |-> FALSE, maxConsecutiveFailures |-> NullInt,
          alternationRate |-> NullInt, timePattern |-> FALSE]
    ELSE LET maxConsecutiveFailures == Streak(runs, 1, 0, 0)
             alternations == Alternations(runs)
         IN  [hasPattern |-> maxConsecutiveFailures > 2
                             \/ 2 * alternations > Len(runs) - 1,
              maxConsecutiveFailures |-> maxConsecutiveFailures,
              alternationRate |-> Round(alternations * 100, Len(runs) - 1),
              timePattern |-> Count(runs, {"failed", "flaky"}) > 0]

\* generateRecommendation: the sentences pushed, by what they are about.
generateRecommendation(flaky, flakeRate, patterns) ==
    IF ~flaky THEN <<"stable">>
    ELSE <<IF RateGreater(flakeRate, 30) THEN "high"
           ELSE IF RateGreater(flakeRate, 15) THEN "moderate" ELSE "low">>
         \o (IF patterns.maxConsecutiveFailures > 3 THEN <<"consecutive">> ELSE <<>>)
         \o (IF patterns.alternationRate > 50 THEN <<"alternating">> ELSE <<>>)
         \o (IF patterns.timePattern THEN <<"time">> ELSE <<>>)

Threw == [kind |-> "threw"]

analyzeTestFlakinessNoEmptyCheck(testCaseId, fetch, config) ==
    IF fetch.error \/ Len(fetch.runs) = 0 THEN Threw
    ELSE Value([testCaseId |-> testCaseId, isFlaky |-> FALSE])

\* analyzeTestFlakiness(testCaseId, options), given the store's answer and
\* config = { ...DEFAULT_CONFIG, ...options }; flakeRate in hundredths.
analyzeTestFlakiness(testCaseId, fetch, config) ==
    IF fetch.error THEN Threw
    ELSE IF Len(fetch.runs) = 0
    THEN Value([testCaseId |-> testCaseId, isFlaky |-> FALSE,
                reason |-> "insufficient_data",
                stats |-> [total |-> 0, passed |-> 0, failed |-> 0, flaky |-> 0]])
    ELSE LET runs == fetch.runs
             stats == [total |-> Len(runs), passed |-> Count(runs, {"passed"}),
                       failed |-> Count(runs, {"failed"}), flaky |-> Count(runs, {"flaky"}),
                       skipped |-> Count(runs, {"skipped"})]
             flaky == isFlaky(stats, config)
             flakeRate == calculateFlakeRate(stats.passed, stats.failed, stats.flaky)
             patterns == analyzeFailurePatterns(runs)
         IN  Value([testCaseId |-> testCaseId, isFlaky |-> flaky,
                    flakeRate |-> Round(flakeRate.num * 100, flakeRate.den),
                    stats |-> stats, patterns |-> patterns,
                    recommendation |-> generateRecommendation(flaky, flakeRate, patterns)])

\* The options analyzeTestFlakiness is followed with: none, and lenient ones.
AnalyzeConfigs ==
    {DEFAULT_CONFIG, [DEFAULT_CONFIG EXCEPT !.minRuns = 1, !.minFailures = 1]}

AnalyzeTestCalls ==
    {[fn |-> "analyzeTestFlakiness", testCaseId |-> 1, fetch |-> ft, config |-> cf] :
        ft \in {Fetched(h) : h \in SeqsUpTo(RunStatuses, MaxRuns)} \cup {FetchError},
        cf \in AnalyzeConfigs}

AnalyzeTestReturns ==
    /\ call.fn = "analyzeTestFlakiness"
    /\ ret = NoRet
    /\ ret' = analyzeTestFlakiness(call.testCaseId, call.fetch, call.config)
    /\ UNCHANGED <<qvars, call>>

\* The most test cases of a project the model follows.
MaxTests == 3

\* What the store answers for one test case of the project: an error, no
\* record, or one of these histories (flake rates 0, 20, 40, 60 and 80).
ProjectFetches ==
    {FetchError, Fetched(<<>>),
     Fetched(<<"passed", "passed", "passed", "passed", "passed">>),
     Fetched(<<"passed", "passed", "passed", "passed", "failed">>),
     Fetched(<<"passed", "failed", "passed", "failed", "passed">>),
     Fetched(<<"failed", "passed", "failed", "passed", "failed">>),
     Fetched(<<"passed", "failed", "flaky", "failed", "failed">>)}

Unsorted(results) == results

\* results.sort((a, b) => b.flakeRate - a.flakeRate): descending, and stable.
RECURSIVE SortByFlakeRate(_)
SortByFlakeRate(results) ==
    IF results = <<>> THEN <<>>
    ELSE LET rest == SortByFlakeRate(SubSeq(results, 1, Len(results) - 1))
             x == results[Len(results)]
             before == SelectSeq(rest, LAMBDA r : r.flakeRate >= x.flakeRate)
             after == SelectSeq(rest, LAMBDA r : r.flakeRate < x.flakeRate)
         IN  before \o <<x>> \o after

\* The loop over testCases: an analysis that throws is logged and skipped, one
\* that is not flaky is dropped.
RECURSIVE AnalyzeEach(_, _, _, _)
AnalyzeEach(fetches, i, config, results) ==
    IF i > Len(fetches) THEN results
    ELSE LET analysis == analyzeTestFlakiness(i, fetches[i], config)
         IN  AnalyzeEach(fetches, i + 1, config,
                         IF analysis.kind = "value" /\ analysis.value.isFlaky
                         THEN Append(results, analysis.value) ELSE results)

\* analyzeProjectFlakiness(projectId, options): the test cases are 1..Len(fetches)
\* in the order the store lists them, fetches[i] what the store answers for
\* test case i.
analyzeProjectFlakiness(casesError, fetches, config) ==
    IF casesError THEN Threw
    ELSE Value(SortByFlakeRate(AnalyzeEach(fetches, 1, config, <<>>)))

AnalyzeProjectCalls ==
    {[fn |-> "analyzeProjectFlakiness", casesError |-> FALSE, fetches |-> fs,
      config |-> DEFAULT_CONFIG] : fs \in SeqsUpTo(ProjectFetches, MaxTests)}
        \cup {[fn |-> "analyzeProjectFlakiness", casesError |-> TRUE, fetches |-> <<>>,
               config |-> DEFAULT_CONFIG]}

AnalyzeProjectReturns ==
    /\ call.fn = "analyzeProjectFlakiness"
    /\ ret = NoRet
    /\ ret' = analyzeProjectFlakiness(call.casesError, call.fetches, call.config)
    /\ UNCHANGED <<qvars, call>>

\* ===================================================== the route normalizer
\* (services/runner/lib/coverage-tracker.js)

\* The longest path the model follows, in symbols.
MaxPath == 4

\* A path is a sequence of symbols: "/", "?", "1" (a digit), "a" (a letter),
\* "U" (a UUID that begins with a letter) and ":id" (the placeholder).
PathSymbols == {"/", "?", "1", "a", "U"}

\* path.replace(/\/<uuid>/gi, '/:id')
RECURSIVE ReplaceUuids(_)
ReplaceUuids(path) ==
    IF Len(path) < 2 THEN path
    ELSE IF path[1] = "/" /\ path[2] = "U"
         THEN <<"/", ":id">> \o ReplaceUuids(SubSeq(path, 3, Len(path)))
         ELSE <<path[1]>> \o ReplaceUuids(Tail(path))

\* The rest of the path after a run of digits.
RECURSIVE SkipDigits(_)
SkipDigits(path) ==
    IF path # <<>> /\ path[1] = "1" THEN SkipDigits(Tail(path)) ELSE path

\* normalized.replace(/\/\d+/g, '/:id')
RECURSIVE ReplaceNumbers(_)
ReplaceNumbers(path) ==
    IF Len(path) < 2 THEN path
    ELSE IF path[1] = "/" /\ path[2] = "1"
         THEN <<"/", ":id">> \o ReplaceNumbers(SkipDigits(Tail(path)))
         ELSE <<path[1]>> \o ReplaceNumbers(Tail(path))

\* normalized.split('?')[0]
RECURSIVE StripQuery(_)
StripQuery(path) ==
    IF path = <<>> \/ path[1] = "?" THEN <<>>
    ELSE <<path[1]>> \o StripQuery(Tail(path))

\* normalized.replace(/\/$/, '') || '/'
StripTrailingSlash(path) ==
    LET stripped == IF path # <<>> /\ path[Len(path)] = "/"
                    THEN SubSeq(path, 1, Len(path) - 1) ELSE path
    IN  IF stripped = <<>> THEN <<"/">> ELSE stripped

\* normalizeRoutePath(path)
normalizeRoutePath(path) ==
    StripTrailingSlash(StripQuery(ReplaceNumbers(ReplaceUuids(path))))

NormalizeCalls ==
    {[fn |-> "normalizeRoutePath", path |-> pa] : pa \in SeqsUpTo(PathSymbols, MaxPath)}

NormalizeReturns ==
    /\ call.fn = "normalizeRoutePath"
    /\ ret = NoRet
    /\ ret' = Value(normalizeRoutePath(call.path))
    /\ UNCHANGED <<qvars, call>>

\* ===================================================== the coverage tracker
\* (services/runner/lib/coverage-tracker.js)

\* The most test results one query returns, and the most defined routes.
MaxResults == 2
MaxDefined == 2

\* A route a log mentions: the method as written and the path.
Mention(method, path) == [method |-> method, path |-> path]

\* match[1].toUpperCase()
ToUpperCase(method) == IF method = "get" THEN "GET" ELSE method

\* The first occurrences of a sequence, in order (a Set keeps insertion order).
RECURSIVE Distinct(_, _)
Distinct(s, seen) ==
    IF s = <<>> THEN <<>>
    ELSE IF s[1] \in seen THEN Distinct(Tail(s), seen)
         ELSE <<s[1]>> \o Distinct(Tail(s), seen \cup {s[1]})

\* The matches of routePattern in the logs of testResults, one after another.
RECURSIVE Matches(_)
Matches(testResults) ==
    IF testResults = <<>> THEN <<>>
    ELSE LET logs == testResults[1]
         IN  [i \in DOMAIN logs |->
                 [method |-> ToUpperCase(logs[i].method), path |-> logs[i].path]]
             \o Matches(Tail(testResults))

\* extractRoutesFromLogs(testResults); a test result is the sequence of routes
\* its logs mention.
extractRoutesFromLogs(testResults) == Distinct(Matches(testResults), {})

\* `${method}:${path}`
Key(method, path) == <<method, path>>

\* calculateRouteCoverage, lines 147-163: one extracted route entered in the
\* testedRoutes map (a sequence in insertion order).
RecordRoute(testedRoutes, route) ==
    LET normalized == normalizeRoutePath(route.path)
        key == Key(route.method, normalized)
    IN  IF \E i \in DOMAIN testedRoutes : testedRoutes[i].key = key
        THEN [i \in DOMAIN testedRoutes |->
                 IF testedRoutes[i].key = key
                 THEN [testedRoutes[i] EXCEPT !.testCount = @ + 1]
                 ELSE testedRoutes[i]]
        ELSE Append(testedRoutes,
                    [key |-> key, method |-> route.method, path |-> normalized,
                     testCount |-> 1])

RECURSIVE RecordRoutes(_, _)
RecordRoutes(testedRoutes, routes) ==
    IF routes = <<>> THEN testedRoutes
    ELSE RecordRoutes(RecordRoute(testedRoutes, routes[1]), Tail(routes))

\* calculateRouteCoverage, lines 144-164: for (const test of testResults || [])
RECURSIVE TestedRoutes(_, _)
TestedRoutes(testResults, testedRoutes) ==
    IF testResults = <<>> THEN testedRoutes
    ELSE TestedRoutes(Tail(testResults),
             RecordRoutes(testedRoutes, extractRoutesFromLogs(<<testResults[1]>>)))

\* A defined route: method, path and category ("" when it has none).
DefinedRoute(method, path, category) ==
    [method |-> method, path |-> path, category |-> category]

\* route.category || 'uncategorized'
CategoryOf(route) == IF route.category = "" THEN "uncategorized" ELSE route.category

\* calculateRouteCoverage, lines 170-181: the entry of one defined route.
DefinedEntry(route, testedRoutes) ==
    LET key == Key(route.method, route.path)
        hits == {i \in DOMAIN testedRoutes : testedRoutes[i].key = key}
    IN  [method |-> route.method, path |-> route.path,
         tested |-> hits # {},
         testCount |-> IF hits # {} THEN testedRoutes[CHOOSE i \in hits : TRUE].testCount
                       ELSE 0,
         category |-> CategoryOf(route)]

\* Every tested route listed as discovered, defined or not.
DiscoveredAll(testedRoutes, definedRoutes) ==
    [i \in DOMAIN testedRoutes |->
        [method |-> testedRoutes[i].method, path |-> testedRoutes[i].path,
         tested |-> TRUE, testCount |-> testedRoutes[i].testCount,
         category |-> "discovered"]]

\* calculateRouteCoverage, lines 184-198: the tested routes that no defined
\* route has the key of, in the map's order.
DiscoveredEntries(testedRoutes, definedRoutes) ==
    LET exists(t) == \E i \in DOMAIN definedRoutes :
                         Key(definedRoutes[i].method, definedRoutes[i].path) = t.key
        absent(t) == ~exists(t)
        found == SelectSeq(testedRoutes, absent)
    IN  [i \in DOMAIN found |->
            [method |-> found[i].method, path |-> found[i].path, tested |-> TRUE,
             testCount |-> found[i].testCount, category |-> "discovered"]]

\* The store's answer to the runs query: an error, or the number of rows.
RunsError == [error |-> TRUE, rows |-> 0]
Runs(n) == [error |-> FALSE, rows |-> n]

\* The store's answer to the run_tests query: an error, no data, or the rows.
TestsError == [error |-> TRUE, null |-> TRUE, data |-> <<>>]
TestsNull == [error |-> FALSE, null |-> TRUE, data |-> <<>>]
Tests(testResults) == [error |-> FALSE, null |-> FALSE, data |-> testResults]

\* const totalCount = definedRoutes.length || routeCoverage.length
totalCount(definedRoutes, routeCoverage) ==
    IF Len(definedRoutes) # 0 THEN Len(definedRoutes) ELSE Len(routeCoverage)

\* routes: [] of the early return (line 126)
NoRunsRoutes(definedRoutes) == <<>>

\* calculateRouteCoverage(projectId, definedRoutes), given the store's answers.
\* Percentages are exact fractions.
calculateRouteCoverage(runs, tests, definedRoutes) ==
    IF runs.error THEN Threw
    ELSE IF runs.rows = 0
    THEN Value([totalRoutes |-> Len(definedRoutes),
                testedRoutes |-> 0,
                untestedRoutes |-> Len(definedRoutes),
                coveragePercentage |-> [num |-> 0, den |-> 1],
                routes |-> NoRunsRoutes(definedRoutes)])
    ELSE IF tests.error THEN Threw
    ELSE LET testedRoutes == TestedRoutes(tests.data, <<>>)
             routeCoverage ==
                 [i \in DOMAIN definedRoutes |-> DefinedEntry(definedRoutes[i], testedRoutes)]
                 \o DiscoveredEntries(testedRoutes, definedRoutes)
             isTested(r) == r.tested
             isDiscovered(r) == r.category = "discovered"
             testedCount == Len(SelectSeq(routeCoverage, isTested))
             total == totalCount(definedRoutes, routeCoverage)
         IN  Value([totalRoutes |-> total,
                    testedRoutes |-> testedCount,
                    untestedRoutes |-> total - testedCount,
                    coveragePercentage |->
                        IF total > 0 THEN [num |-> testedCount * 100, den |-> total]
                        ELSE [num |-> 0, den |-> 1],
                    routes |-> routeCoverage,
                    discoveredRoutes |-> SelectSeq(routeCoverage, isDiscovered)])

\* The logs of a test result, as the routes they mention: none; one route with
\* a numeric id, in two spellings of the method, and with a trailing slash; two
\* ids of one route beside another method; a route of its own.
SampleLogs ==
    { <<>>,
      <<Mention("get", <<"/", "a", "/", "1">>), Mention("GET", <<"/", "a", "/", "1">>),
        Mention("GET", <<"/", "a", "/">>)>>,
      <<Mention("POST", <<"/", "a">>), Mention("GET", <<"/", "a", "/", "1">>),
        Mention("GET", <<"/", "a", "/", "1", "1">>)>>,
      <<Mention("POST", <<"/", "c">>)>> }

\* The defined routes a caller passes: a plain route, a route with an id
\* segment, a route no log mentions, and a route the caller itself categorised
\* 'discovered'.
SampleDefined ==
    { DefinedRoute("GET", <<"/", "a">>, "api"),
      DefinedRoute("GET", <<"/", "a", "/", ":id">>, ""),
      DefinedRoute("GET", <<"/", "b">>, "api"),
      DefinedRoute("POST", <<"/", "a">>, "discovered") }

TestsAnswers ==
    {TestsError, TestsNull} \cup {Tests(t) : t \in SeqsUpTo(SampleLogs, MaxResults)}

CalculateCoverageCalls ==
    {[fn |-> "calculateRouteCoverage", runs |-> ru, tests |-> te, definedRoutes |-> de] :
        ru \in {RunsError, Runs(0)}, te \in {TestsNull},
        de \in SeqsUpTo(SampleDefined, MaxDefined)}
    \cup
    {[fn |-> "calculateRouteCoverage", runs |-> ru, tests |-> te, definedRoutes |-> de] :
        ru \in {Runs(1)}, te \in TestsAnswers,
        de \in SeqsUpTo(SampleDefined, MaxDefined)}

CalculateCoverageReturns ==
    /\ call.fn = "calculateRouteCoverage"
    /\ ret = NoRet
    /\ ret' = calculateRouteCoverage(call.runs, call.tests, call.definedRoutes)
    /\ UNCHANGED <<qvars, call>>

\* The most runs the trend window holds.
MaxTrend == 3

\* The keys of one run's routes alone, whatever was seen before.
KeysOfRunOnly(routesSeen, testResults) ==
    LET routes == extractRoutesFromLogs(testResults)
    IN  {Key(routes[i].method, normalizeRoutePath(routes[i].path)) : i \in DOMAIN routes}

\* getRouteCoverageTrends, lines 287-292: routesSeen after one run's routes
\* have been added.
AddKeys(routesSeen, testResults) ==
    LET routes == extractRoutesFromLogs(testResults)
    IN  routesSeen \cup
        {Key(routes[i].method, normalizeRoutePath(routes[i].path)) : i \in DOMAIN routes}

\* getRouteCoverageTrends, lines 279-298: for (const run of runs || [])
RECURSIVE TrendPoints(_, _)
TrendPoints(runs, routesSeen) ==
    IF runs = <<>> THEN <<>>
    ELSE LET seen == AddKeys(routesSeen, runs[1].tests.data)
         IN  <<[date |-> runs[1].created_at, routesCovered |-> Cardinality(seen)]>>
             \o TrendPoints(Tail(runs), seen)

\* The store's answer to the trend's runs query: an error, or the rows in
\* ascending created_at, each with the answer to its run_tests query.
TrendRunsError == [error |-> TRUE, rows |-> <<>>]
TrendRuns(rows) == [error |-> FALSE, rows |-> rows]

\* getRouteCoverageTrends(projectId, days), given the store's answers.
getRouteCoverageTrends(runs) ==
    IF runs.error THEN Threw ELSE Value(TrendPoints(runs.rows, {}))

\* The answers to one run's run_tests query (an error there leaves data null).
TrendTests ==
    {TestsNull} \cup {Tests(<<l>>) : l \in SampleLogs}
        \cup {Tests(<<<<Mention("GET", <<"/", "a">>)>>, <<Mention("POST", <<"/", "c">>)>>>>)}

\* created_at of the i-th row: all different, or equal in pairs.
TrendDates == {[i \in 1..MaxTrend |-> i], [i \in 1..MaxTrend |-> (i + 1) \div 2]}

TrendCalls ==
    {[fn |-> "getRouteCoverageTrends", runs |-> TrendRunsError]}
    \cup
    {[fn |-> "getRouteCoverageTrends",
      runs |-> TrendRuns([i \in DOMAIN te |-> [created_at |-> da[i], tests |-> te[i]]])] :
        te \in SeqsUpTo(TrendTests, MaxTrend), da \in TrendDates}

TrendReturns ==
    /\ call.fn = "getRouteCoverageTrends"
    /\ ret = NoRet
    /\ ret' = getRouteCoverageTrends(call.runs)
    /\ UNCHANGED <<qvars, call>>

\* getCoverageSummaryByCategory(routes): per category, the counts and the
\* coverage as an exact fraction.
getCoverageSummaryByCategory(routes) ==
    LET categories == {routes[i].category : i \in DOMAIN routes}
        of(c) == {i \in DOMAIN routes : routes[i].category = c}
        testedOf(c) == {i \in of(c) : routes[i].tested}
    IN  [c \in categories |->
            [total |-> Cardinality(of(c)),
             tested |-> Cardinality(testedOf(c)),
             untested |-> Cardinality(of(c)) - Cardinality(testedOf(c)),
             coverage |-> [num |-> Cardinality(testedOf(c)) * 100,
                           den |-> Cardinality(of(c))]]]

\* pattern.test(fullPath) for a pattern of plain characters that begins with a
\* slash: the pattern occurs somewhere in the path.
PatternTest(pattern, path) ==
    \E i \in 1..(Len(path) - Len(pattern) + 1) :
        SubSeq(path, i, i + Len(pattern) - 1) = pattern

\* getUntestedCriticalRoutes(routes, criticalPaths)
getUntestedCriticalRoutes(routes, criticalPaths) ==
    LET critical(route) ==
            /\ ~route.tested
            /\ \E p \in DOMAIN criticalPaths : PatternTest(criticalPaths[p], route.path)
    IN  SelectSeq(routes, critical)

\* generateCoverageReport(projectId, options), given the store's answers;
\* coveragePercentage is in hundredths of a percent point. Reading .length of
\* a property the coverage object does not have raises a TypeError.
generateCoverageReport(runs, tests, options, trendRuns) ==
    LET coverage == calculateRouteCoverage(runs, tests, options.definedRoutes)
        trends == IF options.includeTrends THEN getRouteCoverageTrends(trendRuns)
                  ELSE Value(<<>>)
    IN  IF coverage.kind = "threw" \/ trends.kind = "threw" THEN Threw
        ELSE IF "discoveredRoutes" \notin DOMAIN coverage.value THEN Threw
        ELSE LET c == coverage.value
                 untestedCritical == getUntestedCriticalRoutes(c.routes, options.criticalPaths)
             IN  Value([summary |->
                            [totalRoutes |-> c.totalRoutes,
                             testedRoutes |-> c.testedRoutes,
                             untestedRoutes |-> c.untestedRoutes,
                             coveragePercentage |->
                                 Round(c.coveragePercentage.num * 100,
                                       c.coveragePercentage.den),
                             discoveredRoutes |-> Len(c.discoveredRoutes),
                             untestedCritical |-> Len(untestedCritical)],
                        byCategory |-> getCoverageSummaryByCategory(c.routes),
                        routes |-> c.routes,
                        untestedCritical |-> untestedCritical,
                        discoveredRoutes |-> c.discoveredRoutes,
                        trends |-> [null |-> ~options.includeTrends,
                                    points |-> trends.value]])

\* The options of a report: no defined route or one, no critical pattern or one, and
\* trends on or off.
ReportOptions ==
    {[definedRoutes |-> de, criticalPaths |-> cr, includeTrends |-> tr] :
        de \in SeqsUpTo(SampleDefined, 1),
        cr \in {<<>>, <<(<<"/", "a">>)>>},
        tr \in BOOLEAN}

\* The trend query's answers a report is followed with.
ReportTrendRuns ==
    {TrendRunsError, TrendRuns(<<>>),
     TrendRuns(<<[created_at |-> 1, tests |-> Tests(<<(<<Mention("GET", <<"/", "a">>)>>)>>)]>>)}

ReportCalls ==
    {[fn |-> "generateCoverageReport", runs |-> ca.runs, tests |-> ca.tests,
      options |-> op, trendRuns |-> tr] :
        ca \in {[runs |-> RunsError, tests |-> TestsNull],
                [runs |-> Runs(0), tests |-> TestsNull]}
               \cup {[runs |-> Runs(1), tests |-> te] :
                        te \in {TestsError, TestsNull} \cup {Tests(<<l>>) : l \in SampleLogs}},
        op \in ReportOptions,
        tr \in ReportTrendRuns}

ReportReturns ==
    /\ call.fn = "generateCoverageReport"
    /\ ret = NoRet
    /\ ret' = generateCoverageReport(call.runs, call.tests, call.options, call.trendRuns)
    /\ UNCHANGED <<qvars, call>>

\* ================================================ the analytics functions
\* called on inputs drawn from bounded sets

\* The exported functions that are called.
LibFunctions ==
    {"isFlaky", "calculateFlakeRate", "analyzeTestFlakiness", "analyzeProjectFlakiness",
     "normalizeRoutePath", "calculateRouteCoverage", "getRouteCoverageTrends",
     "generateCoverageReport", "calculateConfidenceInterval"}

\* The calls of one function.
LibCalls(fn) ==
    CASE fn = "isFlaky" -> IsFlakyCalls
      [] fn = "calculateFlakeRate" -> CalculateFlakeRateCalls
      [] fn = "analyzeTestFlakiness" -> AnalyzeTestCalls
      [] fn = "analyzeProjectFlakiness" -> AnalyzeProjectCalls
      [] fn = "normalizeRoutePath" -> NormalizeCalls
      [] fn = "calculateRouteCoverage" -> CalculateCoverageCalls
      [] fn = "getRouteCoverageTrends" -> TrendCalls
      [] fn = "generateCoverageReport" -> ReportCalls
      [] fn = "calculateConfidenceInterval" -> ValidConfidenceIntervalCalls

InitLib ==
    /\ jobs_queue = <<>>
    /\ next_id = 1
    /\ now = 0
    /\ sel = [w \in Workers |-> 0]
    /\ pc = [w \in Workers |-> "idle"]
    /\ job = [w \in Workers |-> NoJob]
    /\ acquired = [id \in 1..MaxJobs |-> 0]
    /\ \E fn \in LibFunctions : call \in LibCalls(fn)
    /\ ret = NoRet

NextLib ==
    \/ IsFlakyReturns
    \/ CalculateFlakeRateReturns
    \/ AnalyzeTestReturns
    \/ AnalyzeProjectReturns
    \/ NormalizeReturns
    \/ CalculateCoverageReturns
    \/ TrendReturns
    \/ ReportReturns
    \/ ConfidenceIntervalReturns

SpecLib == InitLib /\ [][NextLib]_vars

\* C15: isFlaky returns false for every input with passed = 0 or with
\* failed + flaky = 0, and for every input with total < minRuns,
\* failed + flaky < minFailures or flake rate < flakeRateThreshold.
C15_IsFlakyGates ==
    (call.fn = "isFlaky" /\ ret # NoRet) =>
        LET st == call.stats
            cf == call.config
        IN  (\/ st.passed = 0
             \/ st.failed + st.flaky = 0
             \/ st.total < cf.minRuns
             \/ st.failed + st.flaky < cf.minFailures
             \/ RateLess(calculateFlakeRate(st.passed, st.failed, st.flaky),
                         cf.flakeRateThreshold))
            => ret.value = FALSE

\* C16: calculateFlakeRate returns a value in [0, 100], 0 when
\* passed + failed + flaky = 0 and 0 when failed = flaky = 0.
C16_FlakeRateBounds ==
    (call.fn = "calculateFlakeRate" /\ ret # NoRet) =>
        /\ ret.value.den > 0
        /\ 0 <= ret.value.num
        /\ ret.value.num <= 100 * ret.value.den
        /\ (call.passed + call.failed + call.flaky = 0) => ret.value.num = 0
        /\ (call.failed = 0 /\ call.flaky = 0) => ret.value.num = 0
        /\ (call.passed = 0 /\ call.failed + call.flaky > 0) =>
              ret.value.num = 100 * ret.value.den

\* calculateFlakeRate has returned for passes only, and for failures only.
C16_Witness ==
    /\ call.fn = "calculateFlakeRate"
    /\ ret # NoRet
    /\ call.passed = 0
    /\ call.failed > 0
    /\ call.flaky > 0
    /\ ret.value.num = 100 * ret.value.den

\* A history in which passed and failed alternate strictly.
StrictlyAlternates(runs) ==
    /\ \A i \in DOMAIN runs : runs[i] \in {"passed", "failed"}
    /\ \A i \in 2..Len(runs) : runs[i] # runs[i - 1]

IsIdSegment(seg) ==
    \/ seg = <<"U">>
    \/ seg # <<>> /\ \A i \in DOMAIN seg : seg[i] = "1"

\* The path with each such segment replaced by the placeholder and every other
\* segment as it was; seg is the segment read so far.
RECURSIVE RewriteSegments(_, _)
RewriteSegments(path, seg) ==
    LET rewritten == IF IsIdSegment(seg) THEN <<":id">> ELSE seg
    IN  IF path = <<>> THEN rewritten
        ELSE IF path[1] = "/"
             THEN rewritten \o <<"/">> \o RewriteSegments(Tail(path), <<>>)
             ELSE RewriteSegments(Tail(path), Append(seg, path[1]))

LoggedKeys(tests) ==
    UNION {{Key(ToUpperCase(tests.data[t][m].method),
                normalizeRoutePath(tests.data[t][m].path)) : m \in DOMAIN tests.data[t]} :
              t \in DOMAIN tests.data}

DefinedKeys(definedRoutes) ==
    {Key(definedRoutes[i].method, definedRoutes[i].path) : i \in DOMAIN definedRoutes}

\* A report of K entries tagged non-discovered, one for each defined route, and
\* one discovered entry for each logged route absent from definedRoutes, with
\* testedRoutes + untestedRoutes = totalRoutes.
WellFormed(report, definedRoutes, tests) ==
    LET routes == report.routes
        K == Len(definedRoutes)
        nonDiscovered == {i \in DOMAIN routes : routes[i].category # "discovered"}
        discovered == (DOMAIN routes) \ nonDiscovered
    IN  /\ Cardinality(nonDiscovered) = K
        /\ nonDiscovered = 1..K
        /\ \A i \in 1..K : /\ routes[i].method = definedRoutes[i].method
                           /\ routes[i].path = definedRoutes[i].path
        /\ {Key(routes[i].method, routes[i].path) : i \in discovered}
               = LoggedKeys(tests) \ DefinedKeys(definedRoutes)
        /\ Cardinality(discovered)
               = Cardinality(LoggedKeys(tests) \ DefinedKeys(definedRoutes))
        /\ report.testedRoutes + report.untestedRoutes = report.totalRoutes

KeysUpTo(rows, n) ==
    UNION {LoggedKeys(rows[i].tests) : i \in 1..n}

C23_NoRunsReport ==
    /\ (/\ call.fn = "calculateRouteCoverage"
        /\ ret # NoRet
        /\ call.runs = Runs(0)) =>
           /\ ret.kind = "value"
           /\ ret.value.coveragePercentage.num = 0
           /\ ret.value.routes = <<>>
    /\ (/\ call.fn = "generateCoverageReport"
        /\ ret # NoRet
        /\ call.runs = Runs(0)
        /\ call.trendRuns = TrendRuns(<<>>)) =>
           /\ ret.kind = "value"
           /\ DOMAIN ret.value = {"summary", "byCategory", "routes", "untestedCritical",
                                  "discoveredRoutes", "trends"}

\* C29: in every report of calculateRouteCoverage, testedRoutes counts only
\* defined routes: 0 <= testedRoutes <= totalRoutes, untestedRoutes is not
\* negative and is the number of returned entries with tested false, and
\* coveragePercentage lies in [0, 100], also when the logs mention routes that
\* are absent from a non-empty definedRoutes.
C29_TestedCountsDefined ==
    (call.fn = "calculateRouteCoverage" /\ ret # NoRet /\ ret.kind = "value"
        /\ call.runs.rows > 0) =>
        LET report == ret.value
            untested == {i \in DOMAIN report.routes : ~report.routes[i].tested}
        IN  /\ 0 <= report.testedRoutes
            /\ report.testedRoutes <= report.totalRoutes
            /\ report.untestedRoutes >= 0
            /\ report.untestedRoutes = Cardinality(untested)
            /\ 0 <= report.coveragePercentage.num
            /\ report.coveragePercentage.num <= 100 * report.coveragePercentage.den

\* C25: for all integers 0 <= successes <= total with total > 0,
\* calculateConfidenceInterval returns 0 <= lower <= upper <= 1, and for a
\* fixed proportion the width upper - lower shrinks as total grows (here: to
\* twice and to three times the total); for total = 0 it returns lower 0 and
\* upper 0.
C25_IntervalSane ==
    (call.fn = "calculateConfidenceInterval" /\ ret # NoRet) =>
        LET ci == ret.value
            more(k) == calculateConfidenceInterval(k * call.successes, k * call.total,
                                                   call.confidence)
        IN  /\ call.total > 0 =>
                  /\ 0 <= ci.lower
                  /\ ci.lower <= ci.upper
                  /\ ci.upper <= Scale
                  /\ \A k \in 2..3 :
                         more(k).upper - more(k).lower < ci.upper - ci.lower
            /\ call.total = 0 => ci.lower = 0 /\ ci.upper = 0

\* The interval of no success in MaxRuns trials has returned: it reaches down
\* to 0 (but for rounding), ends inside (0, 1) and is wider than the interval
\* of no success in twice as many trials.
C25_Witness ==
    /\ call.fn = "calculateConfidenceInterval"
    /\ ret # NoRet
    /\ call.successes = 0
    /\ call.total = MaxRuns
    /\ ~ret.value.lowerPositive
    /\ ret.value.upper > 0
    /\ ret.value.upper < Scale
    /\ calculateConfidenceInterval(0, 2 * MaxRuns, call.confidence).upper < ret.value.upper

\* The length of the longest run of adjacent failed or flaky records.
LongestFailureRun(runs) ==
    LET fails(i, len) == \A j \in i..(i + len - 1) : runs[j] \in {"failed", "flaky"}
        lens == {len \in 0..Len(runs) : \E i \in 1..(Len(runs) - len + 1) : fails(i, len)}
    IN  CHOOSE len \in lens : \A other \in lens : other <= len

\* The number of adjacent pairs that go passed -> failed or failed -> passed.
Flips(runs) ==
    Cardinality({i \in 1..(Len(runs) - 1) :
                    {runs[i], runs[i + 1]} = {"passed", "failed"}})

\* C26 as stated: for every history of at least 2 records the patterns report
\* maxConsecutiveFailures as the length of the longest run of adjacent
\* failed/flaky records, alternationRate as the number of flips over n - 1, and
\* hasPattern true exactly when maxConsecutiveFailures > 2 or alternationRate
\* > 0.5.
C26_PatternsExact ==
    (/\ call.fn = "analyzeTestFlakiness"
     /\ ret # NoRet
     /\ ~call.fetch.error
     /\ Len(call.fetch.runs) >= 2) =>
        LET runs == call.fetch.runs
            patterns == ret.value.patterns
        IN  /\ patterns.maxConsecutiveFailures = LongestFailureRun(runs)
            /\ patterns.alternationRate * (Len(runs) - 1) = Flips(runs) * 100
            /\ patterns.hasPattern <=>
                   (\/ patterns.maxConsecutiveFailures > 2
                    \/ 2 * Flips(runs) > Len(runs) - 1)

\* C26, amended: the same, with alternationRate reported rounded to two
\* decimals and hasPattern decided on the fraction before rounding.
C26_PatternsRounded ==
    (/\ call.fn = "analyzeTestFlakiness"
     /\ ret # NoRet
     /\ ~call.fetch.error
     /\ Len(call.fetch.runs) >= 2) =>
        LET runs == call.fetch.runs
            patterns == ret.value.patterns
            hundredths == (2 * Flips(runs) * 100 + (Len(runs) - 1))
                              \div (2 * (Len(runs) - 1))
        IN  /\ patterns.maxConsecutiveFailures = LongestFailureRun(runs)
            /\ patterns.alternationRate = hundredths
            /\ patterns.hasPattern <=>
                   (\/ patterns.maxConsecutiveFailures > 2
                    \/ 2 * Flips(runs) > Len(runs) - 1)

\* The patterns of passed, failed, failed, flaky have been reported: a run of
\* three failures, one flip in three pairs reported as 0.33.
C26_Witness ==
    /\ call.fn = "analyzeTestFlakiness"
    /\ ret # NoRet
    /\ call.fetch = Fetched(<<"passed", "failed", "failed", "flaky">>)
    /\ ret.value.patterns.maxConsecutiveFailures = 3
    /\ ret.value.patterns.alternationRate = 33
    /\ ret.value.patterns.hasPattern

\* ============================================ one worker, scheduled fairly
\* (services/runner/index.js startPolling)

\* The worker processes that were started: one.
Polling == {WORKER_ID(1)}

\* A step of worker w's loop that the process takes by itself once it can: the
\* rpc is sent, the handler returns or throws, markJobDone is called.
LoopStep(w) ==
    \/ AcquireSelect(w)
    \/ AcquireUpdate(w)
    \/ HandlerReturns(w)
    \/ HandlerThrows(w)
    \/ MarkDone(w)

NextPolling ==
    \/ \E w \in Polling : AcquireNone(w)
    \/ \E w \in Polling : AcquireSelect(w)
    \/ \E w \in Polling : AcquireUpdate(w)
    \/ \E w \in Polling : AcquireError(w)
    \/ \E w \in Polling : HandlerReturns(w)
    \/ \E w \in Polling : HandlerThrows(w)
    \/ \E w \in Polling : MarkDone(w)
    \/ CreateJob
    \/ PostRuns
    \/ \E id \in 1..MaxJobs : ExternalRequeue(id)
    \/ Tick

\* while (true) { await processJob(); await sleep }: the loop goes on as long
\* as the process lives, and the store, which may fail any single call, does
\* not fail the rpc for ever.
FairPolling ==
    \A w \in Polling : WF_vars(LoopStep(w)) /\ SF_vars(AcquireUpdate(w))

SpecPolling == Init /\ [][NextPolling]_vars /\ FairPolling

\* C27: every job a worker acquires eventually leaves Running (reaches Done or
\* Error), provided the worker process keeps running, the handler returns or
\* throws, and the store is eventually available: a failed markJobDone or
\* markJobError call does not leave the job Running for ever.
C27_AcquiredLeavesRunning ==
    \A w \in Polling : \A id \in 1..MaxJobs :
        [](id \in RunningBy(w) /\ job[w].id = id
              => <>(\/ pc[w] = "exited"
                    \/ id \in Ids /\ Status(id) \in {"done", "error"}))

\* C28: with at least one worker polling under weak fairness and handlers that
\* always return or throw, every job that is Queued with attempts < 3 is
\* eventually acquired by some worker: no eligible job starves, also after
\* earlier jobs of that worker have failed.
C28_EligibleAcquired ==
    \A id \in 1..MaxJobs :
        [](id \in Eligible(jobs_queue) => <>(id \in Ids /\ Status(id) # "queued"))

\* C30: while a job is Running its locked_by is the worker whose acquireJob
\* returned it, and only that worker changes it: a worker between acquireJob
\* and its markJobDone / markJobError holds its job Running under its own id, a
\* dispatcher's markJobDone changes no row but that of the job it acquired in
\* this iteration, and no step of another worker completes, fails or re-locks
\* a Running job.
C30_OnlyHolderChanges ==
    [][/\ \A w \in Workers :
            /\ ReturnStep(w) =>
                  /\ job'[w].id \in DOMAIN jobs_queue'
                  /\ jobs_queue'[job'[w].id].status = "running"
                  /\ jobs_queue'[job'[w].id].locked_by = w
            /\ pc[w] \in {"handler", "markdone"} => job[w].id \in RunningBy(w)
            /\ (pc[w] = "markdone" /\ pc'[w] = "idle") =>
                  \A id \in Ids \ {job[w].id} : jobs_queue'[id] = jobs_queue[id]
       /\ \A id \in Ids :
            (Status(id) = "running" /\ jobs_queue'[id] # jobs_queue[id]) =>
                /\ jobs_queue[id].locked_by \in Workers
                /\ pc[jobs_queue[id].locked_by] = "markdone"
                /\ pc'[jobs_queue[id].locked_by] = "idle"
                /\ job[jobs_queue[id].locked_by].id = id]_vars

\* One worker is inside its handler with its job Running under its id, while
\* the other worker has completed a job of its own.
C30_Witness ==
    \E w \in Workers, v \in Workers, id \in Ids, other \in Ids :
        /\ w # v
        /\ pc[w] = "handler"
        /\ job[w].id = id
        /\ id \in RunningBy(w)
        /\ Status(other) = "done"
        /\ jobs_queue[other].locked_by = v

====
